---- MODULE Spec2Model ----
(***************************************************************************)
(* Model of the ERC20 approval batch of evm-tools:                         *)
(*   src/tools/approve.ts      checkAllowance, approveToken,               *)
(*                             approveMultipleTokens,                      *)
(*                             approveForMultipleWallets                   *)
(*   src/scripts/approve-uniswap.ts   main (connection test, spender loop, *)
(*                             catch handler)                              *)
(*   src/config/contracts.ts   MAX_UINT256                                 *)
(* The program is a single control flow suspended at every chain call.     *)
(* One action of the model is one resumption: a chain call returns or      *)
(* raises and the code runs up to the next chain call.  The loops of the   *)
(* three nested functions are separate actions.  The chain (allowances,    *)
(* submitted transactions) is part of the state; what a chain call answers *)
(* is chosen by the environment.                                           *)
(***************************************************************************)
EXTENDS Integers, Sequences, FiniteSets, TLC

(***************************************************************************)
(* Bounds of the model.                                                    *)
(***************************************************************************)
MaxWallets == 2
MaxTokens == 2
MaxSpenders == 2
MaxTriples == 4
MaxFaults == 1

(***************************************************************************)
(* Addresses.  A wallet is identified with its address.                    *)
(***************************************************************************)
WalletAddrList == <<"0xW1", "0xW2">>
TokenAddrList == <<"USDC", "VULT">>
SpenderAddrList == <<"POSITION_MANAGER", "SWAP_ROUTER">>

Range(f) == {f[i] : i \in DOMAIN f}
WalletAddrs == Range(WalletAddrList)
TokenAddrs == Range(TokenAddrList)
SpenderAddrs == Range(SpenderAddrList)

\* The input lists of at most n addresses, duplicates included.  Addresses
\* are interchangeable, so of the lists that differ only by renaming
\* addresses one is kept: the one whose addresses first occur in the order
\* of `addrs`.
IndexIn(addrs, a) == CHOOSE i \in DOMAIN addrs : addrs[i] = a
InputLists(addrs, n) ==
  {l \in UNION {[1..k -> Range(addrs)] : k \in 0..n} :
     \A i \in DOMAIN l :
       \/ IndexIn(addrs, l[i]) = 1
       \/ \E j \in 1..(i - 1) : IndexIn(addrs, l[j]) + 1 >= IndexIn(addrs, l[i])}

(***************************************************************************)
(* uint256 values, kept at their full width as big-endian 16-bit limbs.    *)
(***************************************************************************)
UintBits == 256
LimbBase == 2^16
NumLimbs == UintBits \div 16

Zero256 == [i \in 1..NumLimbs |-> 0]
\* MaxUint256 of ethers: 2^256 - 1, every limb all ones.
MAX_UINT256 == [i \in 1..NumLimbs |-> LimbBase - 1]
MaxMinusOne256 == [i \in 1..NumLimbs |-> IF i = NumLimbs THEN LimbBase - 2 ELSE LimbBase - 1]

\* a >= b on uint256 values (bigint comparison): the most significant limb
\* in which they differ decides.
GE256(a, b) ==
  \/ a = b
  \/ \E i \in 1..NumLimbs :
       /\ a[i] > b[i]
       /\ \A j \in 1..(i - 1) : a[j] = b[j]

LowAllowances == {Zero256, MaxMinusOne256}

(***************************************************************************)
(* What a rejected promise carries: an Error object or any other value.    *)
(***************************************************************************)
ErrorObj(m) == [isError |-> TRUE, message |-> m]
ThrownValue(v) == [isError |-> FALSE, value |-> v]
Exceptions == {ErrorObj("insufficient funds"), ThrownValue("timeout")}

\* Mutant: a fixed text in place of the message.
ErrorMessage_fixed(error) == "Approval failed"

\* error instanceof Error ? error.message : String(error)
ErrorMessage(error) == IF error.isError THEN error.message ELSE error.value

VARIABLES
  pc,                  \* where the single control flow is suspended
  wallets,             \* main: wallets (their addresses), in derivation order
  tokenAddresses,      \* main: tokensToApprove
  spenders,            \* main: spenders (their addresses)
  waitForConfirmation, \* the confirm flag handed down to approveToken
  si, wi, ti,          \* loop positions: spender, wallet, token (1-based)
  result,              \* approveToken: the result under construction
  results,             \* approveMultipleTokens: results
  walletResults,       \* approveForMultipleWallets: allResults
  allResults,          \* main: allResults
  allowance,           \* chain: allowance of (owner, token, spender)
  txs,                 \* chain: the approve transactions submitted, in order
  log,                 \* history: approveToken calls, chain calls, returns
  exception,           \* an exception propagating to main's catch, if any
  faults,              \* chain calls that did not answer with success so far
  summary,             \* console: what displayApprovalSummary printed
  env,                 \* process.env: ALCHEMY_API_KEY and MNEMONIC_1, 2, ...
  mnemonics,           \* main: the phrases loadMnemonics returned
  setup,               \* history: the steps of main before the batch
  di                   \* displayWalletInfo: the loop index i, from 1

vars == <<pc, wallets, tokenAddresses, spenders, waitForConfirmation, si, wi, ti,
          result, results, walletResults, allResults, allowance, txs, log,
          exception, faults, summary, env, mnemonics, setup, di>>

inputs == <<wallets, tokenAddresses, spenders, waitForConfirmation>>
chain == <<allowance, txs>>
scriptVars == <<env, mnemonics, setup, di>>

NoResult == [none |-> TRUE]
NoException == <<>>
NoSummary == [none |-> TRUE]
Unset == [undefined |-> TRUE]

Has(r, f) == f \in DOMAIN r

\* r.f = v on an object whose property f may be absent.
SetField(r, f, v) == [x \in (DOMAIN r) \cup {f} |-> IF x = f THEN v ELSE r[x]]

\* Mutant: one result object is shared by the calls of a wallet: only the
\* addresses are set anew, what the call before left in it stays.
NewResult_shared(wallet, tokenAddress, spenderAddress) ==
  IF results = <<>>
    THEN [success |-> FALSE, skipped |-> FALSE,
          walletAddress |-> wallet, tokenAddress |-> tokenAddress,
          spenderAddress |-> spenderAddress]
    ELSE [results[Len(results)] EXCEPT !.walletAddress = wallet,
                                       !.tokenAddress = tokenAddress,
                                       !.spenderAddress = spenderAddress]

(***************************************************************************)
(* approveToken, lines 48-54: the result record as first built.  txHash    *)
(* and error are optional properties: absent until assigned.               *)
(***************************************************************************)
NewResult(wallet, tokenAddress, spenderAddress) ==
  [success |-> FALSE, skipped |-> FALSE,
   walletAddress |-> wallet, tokenAddress |-> tokenAddress,
   spenderAddress |-> spenderAddress]

\* Mutant: the tokens are taken from the end of the list.
CurToken_reversed == tokenAddresses[Len(tokenAddresses) + 1 - ti]

\* The triple approveToken is working on.
CurWallet == wallets[wi]
CurToken == tokenAddresses[ti]
CurSpender == spenders[si]

\* Number of approveToken calls made so far (the ordinal of the current one).
Invocations == Cardinality({i \in DOMAIN log : log[i].op = "approveToken"})

\* One line of the history: call `op` of approveToken call number k, made by
\* signer `wallet` on contract `token` with arguments `args`, answered `out`
\* ("ok" or "raised") with `ret`.
Entry(op, k, args, out, ret) ==
  [op |-> op, k |-> k, idx |-> <<si, wi, ti>>, wallet |-> CurWallet,
   token |-> CurToken, args |-> args, out |-> out, ret |-> ret]

InputTriples ==
  {<<wallets[w], tokenAddresses[t], spenders[s]>> :
     w \in DOMAIN wallets, t \in DOMAIN tokenAddresses, s \in DOMAIN spenders}

(***************************************************************************)
(* The batch on its own: approveForMultipleWallets is exported and takes   *)
(* any wallets, token addresses, spender and confirm flag.  It is called   *)
(* once per spender by a loop as in main, lines 133-153, with arguments    *)
(* drawn from bounded sets; what main does before line 133 (provider,      *)
(* mnemonics, prompts) is in ScriptSpec.                                   *)
(***************************************************************************)
Init ==
  /\ wallets \in InputLists(WalletAddrList, MaxWallets)
  /\ tokenAddresses \in InputLists(TokenAddrList, MaxTokens)
  /\ spenders \in InputLists(SpenderAddrList, MaxSpenders)
  /\ Len(wallets) * Len(tokenAddresses) * Len(spenders) <= MaxTriples
  /\ waitForConfirmation \in BOOLEAN
  \* every allowance is unlimited already or below the threshold; the batch
  \* meets one value below it, zero or the largest one
  /\ \E low \in LowAllowances :
       allowance \in [WalletAddrs \X TokenAddrs \X SpenderAddrs -> {low, MAX_UINT256}]
  \* allowances the batch never reads are fixed, they cannot matter
  /\ \A tr \in WalletAddrs \X TokenAddrs \X SpenderAddrs :
       tr \notin InputTriples => allowance[tr] = MAX_UINT256
  /\ txs = <<>>
  \* the caller is at the head of its loop over the spenders
  /\ pc = "main_loop"
  /\ si = 1 /\ wi = 1 /\ ti = 1
  /\ result = NoResult
  /\ results = <<>> /\ walletResults = <<>> /\ allResults = <<>>
  /\ log = <<>>
  /\ exception = NoException
  /\ faults = 0
  /\ summary = NoSummary
  \* the batch is handed its wallets: nothing is read from the environment
  /\ env = [ALCHEMY_API_KEY |-> Unset, MNEMONIC |-> <<>>]
  /\ mnemonics = <<>>
  /\ setup = <<>>
  /\ di = 1

(***************************************************************************)
(* The chain, as ethers presents it.                                       *)
(***************************************************************************)
\* Mutant: every transaction is signed by the first wallet of the list.
NewTx_firstWallet(from, to, args) ==
  [from |-> wallets[1], to |-> to, spender |-> args[1], amount |-> args[2],
   status |-> "pending"]

\* approve(spender, amount) signed by `from` and sent to contract `to`:
\* the transaction is broadcast and stays pending until it is mined.
NewTx(from, to, args) ==
  [from |-> from, to |-> to, spender |-> args[1], amount |-> args[2],
   status |-> "pending"]

\* The identifier the chain gives the next transaction submitted.
NextHash == Len(txs) + 1

\* A transaction mined with success: ERC20 approve sets the allowance.
MinedOk(h) ==
  /\ txs' = [txs EXCEPT ![h].status = "success"]
  /\ allowance' = [allowance EXCEPT ![<<txs[h].from, txs[h].to, txs[h].spender>>] =
                     txs[h].amount]

\* A transaction mined with failure status: reverted, no effect.
MinedReverted(h) ==
  /\ txs' = [txs EXCEPT ![h].status = "reverted"]
  /\ allowance' = allowance

\* What tx.wait() can resolve to: a receipt with status 1 or 0, or null.
Receipts == {[status |-> 1], [status |-> 0], [null |-> TRUE]}
IsNull(receipt) == Has(receipt, "null")

(***************************************************************************)
(* approveToken                                                            *)
(***************************************************************************)
\* The code goes on to its next chain call: the answer is noted.
Continue(entry, next) ==
  /\ log' = Append(log, entry)
  /\ pc' = next

\* Mutant: the list of the wallet's results is replaced by the new record.
Return_overwrite(entry, res) ==
  /\ log' = log \o <<entry, Entry("return", entry.k, <<>>, "ok", res)>>
  /\ results' = <<res>>
  /\ ti' = ti + 1
  /\ pc' = "amt_loop"
  /\ result' = NoResult

\* line 102 `return result`, then approveMultipleTokens line 128
\* `results.push(result)` and the for-of loop stepping to the next token.
Return(entry, res) ==
  /\ log' = log \o <<entry, Entry("return", entry.k, <<>>, "ok", res)>>
  /\ results' = Append(results, res)
  /\ ti' = ti + 1
  /\ pc' = "amt_loop"
  /\ result' = NoResult

\* Mutant: the catch block returns a record built anew, without what was
\* noted before the error.
ApproveTokenCatch_freshRecord(entry, error) ==
  /\ Return(entry,
            SetField(NewResult(result.walletAddress, result.tokenAddress,
                               result.spenderAddress),
                     "error", ErrorMessage(error)))
  /\ exception' = exception

\* Mutant: a symbol or decimals read that fails is passed over, the
\* allowance is read next.
ApproveTokenCatch_metadataOptional(entry, error) ==
  IF entry.op \in {"symbol", "decimals"}
    THEN /\ log' = Append(log, entry)
         /\ pc' = "allowance"
         /\ exception' = exception
         /\ UNCHANGED <<ti, results, result>>
    ELSE /\ Return(entry, SetField(result, "error", ErrorMessage(error)))
         /\ exception' = exception

\* Mutant: the catch block makes the failed chain call again.
ApproveTokenCatch_retry(entry, error) ==
  /\ log' = Append(log, entry)
  /\ exception' = exception
  /\ pc' = pc
  /\ UNCHANGED <<ti, results, result>>

\* Mutant: the catch block rethrows, the error leaves approveToken.
ApproveTokenCatch_rethrow(entry, error) ==
  /\ log' = Append(log, entry)
  /\ exception' = <<error>>
  /\ pc' = "main_catch"
  /\ result' = NoResult
  /\ UNCHANGED <<ti, results>>

\* lines 96-102: the catch block of approveToken; the function then returns.
ApproveTokenCatch(entry, error) ==
  /\ Return(entry, SetField(result, "error", ErrorMessage(error)))
  /\ exception' = exception

\* Mutant: a pending approve of the same triple counts like an unlimited
\* allowance.
AlreadyUnlimited_orPending(currentAllowance) ==
  \/ GE256(currentAllowance, MAX_UINT256)
  \/ \E h \in DOMAIN txs :
       /\ txs[h].status = "pending"
       /\ <<txs[h].from, txs[h].to, txs[h].spender>> = <<CurWallet, CurToken, CurSpender>>

\* Mutant: any allowance other than zero counts as unlimited.
AlreadyUnlimited_nonZero(currentAllowance) == currentAllowance # Zero256

\* Mutant: > in place of >=.
AlreadyUnlimited_strict(currentAllowance) ==
  GE256(currentAllowance, MAX_UINT256) /\ currentAllowance # MAX_UINT256

\* line 69: currentAllowance >= MAX_UINT256
AlreadyUnlimited(currentAllowance) == GE256(currentAllowance, MAX_UINT256)

\* Mutant: the skip branch sets skipped and leaves success as it was.
Skipped_flagOnly(res) == [res EXCEPT !.skipped = TRUE]

\* Mutant: the skip branch leaves a text in the error property.
Skipped_withError(res) ==
  SetField([res EXCEPT !.success = TRUE, !.skipped = TRUE], "error", "already approved")

\* lines 71-73: the skip branch.
Skipped(res) == [res EXCEPT !.success = TRUE, !.skipped = TRUE]

\* Mutant: approves one less than the maximum.
ApproveArgs_lessThanMax(spenderAddress) == <<spenderAddress, MaxMinusOne256>>

\* line 77: the arguments of tokenContract.approve
ApproveArgs(spenderAddress) == <<spenderAddress, MAX_UINT256>>

\* Mutant: the hash is not recorded at submission.
RecordTx_forgotten(res, tx) == res

\* line 78: result.txHash = tx.hash
RecordTx(res, tx) == SetField(res, "txHash", tx.hash)

\* Mutant: the flag is taken the wrong way round.
ShouldWait_inverted == ~waitForConfirmation

\* Mutant: the receipt is never awaited.
ShouldWait_never == FALSE

\* Mutant: the flag is ignored, the receipt is always awaited.
ShouldWait_always == TRUE

\* line 82: if (waitForConfirmation)
ShouldWait == waitForConfirmation

\* Mutant: a receipt that is not a success leaves the record without text.
AfterReceipt_silent(res, receipt) ==
  IF ~IsNull(receipt) /\ receipt.status = 1
    THEN [res EXCEPT !.success = TRUE]
    ELSE res

\* Mutant: a missing receipt counts as success.
AfterReceipt_nullIsSuccess(res, receipt) ==
  IF IsNull(receipt) \/ receipt.status = 1
    THEN [res EXCEPT !.success = TRUE]
    ELSE SetField(res, "error", "Transaction failed")

\* Mutant: any receipt counts as success, its status is not looked at.
AfterReceipt_anyReceipt(res, receipt) ==
  IF ~IsNull(receipt)
    THEN [res EXCEPT !.success = TRUE]
    ELSE SetField(res, "error", "Transaction failed")

\* lines 86-92: the receipt decides the result.
AfterReceipt(res, receipt) ==
  IF ~IsNull(receipt) /\ receipt.status = 1
    THEN [res EXCEPT !.success = TRUE]
    ELSE SetField(res, "error", "Transaction failed")

\* line 94: no confirmation asked, success right after submission.
Unconfirmed(res) == [res EXCEPT !.success = TRUE]

\* Mutant: the value of an earlier read of the same allowance is reused.
ReadAllowance_cached(owner, tokenAddress, spenderAddress) ==
  LET earlier == {i \in DOMAIN log :
                    /\ log[i].op = "allowance" /\ log[i].out = "ok"
                    /\ log[i].token = tokenAddress
                    /\ log[i].args = <<owner, spenderAddress>>}
  IN IF earlier = {}
       THEN allowance[<<owner, tokenAddress, spenderAddress>>]
       ELSE log[CHOOSE i \in earlier : \A j \in earlier : i <= j].ret

\* checkAllowance line 30: tokenContract.allowance(wallet.address, spender)
\* answers with the chain's value at the time of the call.
ReadAllowance(owner, tokenAddress, spenderAddress) ==
  allowance[<<owner, tokenAddress, spenderAddress>>]

\* The arguments of the chain call in flight at `site`.
CallArgs(site) ==
  CASE site = "allowance" -> <<CurWallet, CurSpender>>
    [] site = "approve" -> ApproveArgs(CurSpender)
    [] site = "wait" -> <<Len(txs)>>
    [] OTHER -> <<>>

\* line 61: await tokenContract.symbol() returns.
SymbolReturns ==
  /\ pc = "symbol"
  /\ Continue(Entry("symbol", Invocations, CallArgs("symbol"), "ok", <<>>), "decimals")
  /\ UNCHANGED <<inputs, si, wi, ti, result, results, walletResults, allResults,
                 chain, exception, faults,
                 summary, scriptVars>>

\* line 62: await tokenContract.decimals() returns.
DecimalsReturns ==
  /\ pc = "decimals"
  /\ Continue(Entry("decimals", Invocations, CallArgs("decimals"), "ok", <<>>), "allowance")
  /\ UNCHANGED <<inputs, si, wi, ti, result, results, walletResults, allResults,
                 chain, exception, faults,
                 summary, scriptVars>>

\* checkAllowance lines 29-31 and approveToken lines 67-77: the allowance
\* read returns the chain's current value; skip and return, or call approve.
AllowanceReturns ==
  /\ pc = "allowance"
  /\ LET args == CallArgs("allowance")
         currentAllowance == ReadAllowance(args[1], CurToken, args[2])
         entry == Entry("allowance", Invocations, args, "ok", currentAllowance)
     IN
       IF AlreadyUnlimited(currentAllowance)
         THEN Return(entry, Skipped(result))
         ELSE /\ Continue(entry, "approve")
              /\ UNCHANGED <<ti, result, results>>
  /\ UNCHANGED <<inputs, si, wi, walletResults, allResults, chain, exception, faults,
                 summary, scriptVars>>

\* lines 77-95: the submission returns a transaction handle; its hash is
\* recorded; wait for the receipt or succeed at once.
ApproveReturns ==
  /\ pc = "approve"
  /\ LET args == CallArgs("approve")
         tx == [hash |-> NextHash]
         entry == Entry("approve", Invocations, args, "ok", tx.hash)
     IN
       /\ txs' = Append(txs, NewTx(CurWallet, CurToken, args))
       /\ IF ShouldWait
            THEN /\ result' = RecordTx(result, tx)
                 /\ Continue(entry, "wait")
                 /\ UNCHANGED <<ti, results>>
            ELSE Return(entry, Unconfirmed(RecordTx(result, tx)))
  /\ UNCHANGED <<inputs, si, wi, walletResults, allResults, allowance, exception, faults,
                 summary, scriptVars>>

\* lines 84-92: tx.wait() resolves; the transaction awaited is the last one
\* submitted.  A receipt other than success uses up the budget of faults.
WaitReturns ==
  /\ pc = "wait"
  /\ \E receipt \in Receipts :
       /\ CASE IsNull(receipt) -> UNCHANGED chain
            [] receipt.status = 1 -> MinedOk(Len(txs))
            [] OTHER -> MinedReverted(Len(txs))
       /\ Return(Entry("wait", Invocations, CallArgs("wait"), "ok", receipt),
                 AfterReceipt(result, receipt))
       /\ IF ~IsNull(receipt) /\ receipt.status = 1
            THEN faults' = faults
            ELSE faults < MaxFaults /\ faults' = faults + 1
  /\ UNCHANGED <<inputs, si, wi, walletResults, allResults, exception,
                 summary, scriptVars>>

\* Any of the awaited chain calls of lines 61-84 rejects: control passes to
\* the catch block.  A rejected submission broadcasts nothing.
ChainCallRaises ==
  /\ pc \in {"symbol", "decimals", "allowance", "approve", "wait"}
  /\ faults < MaxFaults
  /\ \E error \in Exceptions :
       ApproveTokenCatch(Entry(pc, Invocations, CallArgs(pc), "raised", error), error)
  /\ faults' = faults + 1
  /\ UNCHANGED <<inputs, si, wi, walletResults, allResults, chain,
                 summary, scriptVars>>

(***************************************************************************)
(* approveMultipleTokens, lines 119-131                                    *)
(***************************************************************************)
\* Mutant: assignment in place of push.
PushAll_overwrite(all, rs) == rs

\* Mutant: the new results are put in front.
PushAll_prepend(all, rs) == rs \o all

\* allResults.push(...results): approve.ts line 167, approve-uniswap.ts 147
PushAll(all, rs) == all \o rs

AMTLoop ==
  /\ pc = "amt_loop"
  /\ IF ti <= Len(tokenAddresses)
       THEN \* line 122: call approveToken, which runs up to symbol()
            /\ result' = NewResult(CurWallet, CurToken, CurSpender)
            /\ Continue(Entry("approveToken", Invocations + 1,
                              <<CurWallet, CurToken, CurSpender, waitForConfirmation>>,
                              "call", <<>>),
                        "symbol")
            /\ UNCHANGED <<wi, results, walletResults>>
       ELSE \* line 131 return results; approveForMultipleWallets line 167
            /\ walletResults' = PushAll(walletResults, results)
            /\ results' = <<>>
            /\ wi' = wi + 1
            /\ pc' = "afmw_loop"
            /\ UNCHANGED <<result, log>>
  /\ UNCHANGED <<inputs, si, ti, allResults, chain, exception, faults,
                 summary, scriptVars>>

(***************************************************************************)
(* approveForMultipleWallets, lines 148-170                                *)
(***************************************************************************)
AFMWLoop ==
  /\ pc = "afmw_loop"
  /\ IF wi <= Len(wallets)
       THEN \* line 160: call approveMultipleTokens
            /\ results' = <<>>
            /\ ti' = 1
            /\ pc' = "amt_loop"
            /\ UNCHANGED <<si, walletResults, allResults>>
       ELSE \* line 170 return allResults; main line 147
            /\ allResults' = PushAll(allResults, walletResults)
            /\ walletResults' = <<>>
            /\ si' = si + 1
            /\ pc' = "main_loop"
            /\ UNCHANGED <<ti, results>>
  /\ UNCHANGED <<inputs, wi, result, chain, log, exception, faults,
                 summary, scriptVars>>

(***************************************************************************)
(* displayApprovalSummary, lines 177-203.  What is printed is kept as a    *)
(* record: the four numbers and the lines of the failure listing.          *)
(***************************************************************************)
\* lines 178-180: the three filters.
SuccessfulFilter(r) == r.success /\ ~r.skipped
SkippedFilter(r) == r.skipped
FailedFilter(r) == ~r.success

\* `if (r.error)`: the property is present and not the empty string.
Truthy(r, f) == Has(r, f) /\ r[f] # ""

\* lines 196-199: one failed record is printed as `wallet -> token`, and
\* `Error: ...` below it when the record has an error.
FailureLine(r) ==
  IF Truthy(r, "error")
    THEN [walletAddress |-> r.walletAddress, tokenAddress |-> r.tokenAddress,
          error |-> r.error]
    ELSE [walletAddress |-> r.walletAddress, tokenAddress |-> r.tokenAddress]

FailureLines(rs) ==
  LET failedRecords == SelectSeq(rs, FailedFilter)
  IN [p \in DOMAIN failedRecords |-> FailureLine(failedRecords[p])]

DisplayApprovalSummary(rs) ==
  LET successful == Len(SelectSeq(rs, SuccessfulFilter))
      skipped == Len(SelectSeq(rs, SkippedFilter))
      failed == Len(SelectSeq(rs, FailedFilter))
  IN [total |-> Len(rs), successful |-> successful, skipped |-> skipped,
      failed |-> failed,
      failures |-> IF failed > 0 THEN FailureLines(rs) ELSE <<>>]

(***************************************************************************)
(* main, from line 133 on: the caller of approveForMultipleWallets.        *)
(***************************************************************************)
\* lines 133-153: the loop over spenders, then the summary and the end.
MainLoop ==
  /\ pc = "main_loop"
  /\ IF si <= Len(spenders)
       THEN \* line 140: call approveForMultipleWallets
            /\ walletResults' = <<>>
            /\ wi' = 1
            /\ pc' = "afmw_loop"
            /\ summary' = summary
       ELSE \* line 151: displayApprovalSummary(allResults)
            /\ summary' = DisplayApprovalSummary(allResults)
            /\ pc' = "done"
            /\ UNCHANGED <<wi, walletResults>>
  /\ UNCHANGED <<inputs, si, ti, result, results, allResults, chain, log,
                 exception, faults, scriptVars>>

\* lines 154-157: main's catch: process.exit(1).
MainCatch ==
  /\ pc = "main_catch"
  /\ pc' = "exit1"
  /\ UNCHANGED <<inputs, si, wi, ti, result, results, walletResults, allResults,
                 chain, log, exception, faults,
                 summary, scriptVars>>

(***************************************************************************)
(* The environment: a pending transaction nobody is waiting for is mined.  *)
(* The program sees the chain's allowances only in the allowance read, and *)
(* only the allowance of the triple it reads, so the mining is taken right *)
(* before that read and for that triple.                                   *)
(***************************************************************************)
ChainMines ==
  /\ pc = "allowance"
  /\ \E h \in DOMAIN txs :
       /\ txs[h].status = "pending"
       /\ <<txs[h].from, txs[h].to, txs[h].spender>> = <<CurWallet, CurToken, CurSpender>>
       /\ \/ MinedOk(h)
          \/ MinedReverted(h)
  /\ UNCHANGED <<pc, inputs, si, wi, ti, result, results, walletResults, allResults,
                 log, exception, faults,
                 summary, scriptVars>>

Next ==
  \/ MainLoop
  \/ AFMWLoop
  \/ AMTLoop
  \/ SymbolReturns
  \/ DecimalsReturns
  \/ AllowanceReturns
  \/ ApproveReturns
  \/ WaitReturns
  \/ ChainCallRaises
  \/ ChainMines

Spec == Init /\ [][Next]_vars

(***************************************************************************)
(* displayApprovalSummary on its own: it is exported and takes any list of *)
(* ApprovalResult records.                                                 *)
(***************************************************************************)
MaxRecords == 2

\* interface ApprovalResult, lines 7-15, over a few addresses and texts.
ApprovalResults ==
  LET required == [success : BOOLEAN, skipped : BOOLEAN,
                   walletAddress : WalletAddrs, tokenAddress : {TokenAddrList[1]},
                   spenderAddress : {SpenderAddrList[1]}]
  IN required
       \cup {SetField(r, "error", e) : r \in required, e \in {"", "insufficient funds"}}

RecordLists ==
  UNION {[1..n -> ApprovalResults] : n \in 0..MaxRecords}

SummaryInit ==
  /\ pc = "summary"
  /\ allResults \in RecordLists
  /\ summary = NoSummary
  /\ wallets = <<>> /\ tokenAddresses = <<>> /\ spenders = <<>>
  /\ waitForConfirmation = TRUE
  /\ allowance = [tr \in WalletAddrs \X TokenAddrs \X SpenderAddrs |-> MAX_UINT256]
  /\ txs = <<>>
  /\ si = 1 /\ wi = 1 /\ ti = 1
  /\ result = NoResult
  /\ results = <<>> /\ walletResults = <<>>
  /\ log = <<>>
  /\ exception = NoException
  /\ faults = 0
  /\ env = [ALCHEMY_API_KEY |-> Unset, MNEMONIC |-> <<>>]
  /\ mnemonics = <<>>
  /\ setup = <<>>
  /\ di = 1

\* displayApprovalSummary(results) is called and returns.
SummaryShown ==
  /\ pc = "summary"
  /\ summary' = DisplayApprovalSummary(allResults)
  /\ pc' = "summary_done"
  /\ UNCHANGED <<inputs, si, wi, ti, result, results, walletResults, allResults,
                 chain, log, exception, faults, scriptVars>>

SummaryNext == SummaryShown

SummarySpec == SummaryInit /\ [][SummaryNext]_vars

(***************************************************************************)
(* utils/wallet.ts: loadMnemonics.  env.MNEMONIC[i] is process.env of      *)
(* MNEMONIC_i: Unset, or a string, which may be empty.                     *)
(***************************************************************************)
MaxEnv == 3

EnvString(v) == [value |-> v]
Phrases == {"phrase one", "phrase two"}
EnvValues == {Unset, EnvString("")} \cup {EnvString(ph) : ph \in Phrases}

\* Mutant: only an unset variable ends the loop, an empty one is taken.
IsSet_definedOnly(x) == Has(x, "value")

\* line 23 `if (!mnemonicPhrase)`: undefined and "" are both falsy.
IsSet(x) == Has(x, "value") /\ x.value # ""

Threw(error) == [threw |-> error]
Returned(v) == [returned |-> v]

\* lines 13-37: the while loop from index 1 to the first gap, then the check
\* for an empty list.
LoadMnemonics(slots) ==
  LET loop[index \in 1..(Len(slots) + 1)] ==
        IF index > Len(slots) \/ ~IsSet(slots[index])
          THEN <<>>
          ELSE <<slots[index].value>> \o loop[index + 1]
  IN IF Len(loop[1]) = 0
       THEN Threw(ErrorObj("No mnemonics found in environment variables. Please add MNEMONIC_1, MNEMONIC_2, etc. to your .env file."))
       ELSE Returned(loop[1])

MnemonicInit ==
  /\ pc = "load"
  /\ \E slots \in [1..MaxEnv -> EnvValues] :
       env = [ALCHEMY_API_KEY |-> Unset, MNEMONIC |-> slots]
  /\ mnemonics = <<>>
  /\ exception = NoException
  /\ setup = <<>>
  /\ di = 1
  /\ summary = NoSummary
  /\ wallets = <<>> /\ tokenAddresses = <<>> /\ spenders = <<>>
  /\ waitForConfirmation = TRUE
  /\ allowance = [tr \in WalletAddrs \X TokenAddrs \X SpenderAddrs |-> MAX_UINT256]
  /\ txs = <<>>
  /\ si = 1 /\ wi = 1 /\ ti = 1
  /\ result = NoResult
  /\ results = <<>> /\ walletResults = <<>> /\ allResults = <<>>
  /\ log = <<>>
  /\ faults = 0

\* loadMnemonics() is called; it returns the list or throws.
MnemonicsLoaded ==
  /\ pc = "load"
  /\ LET loaded == LoadMnemonics(env.MNEMONIC)
     IN IF Has(loaded, "returned")
          THEN /\ mnemonics' = loaded.returned
               /\ exception' = exception
               /\ pc' = "loaded"
          ELSE /\ exception' = <<loaded.threw>>
               /\ mnemonics' = mnemonics
               /\ pc' = "load_threw"
  /\ UNCHANGED <<inputs, si, wi, ti, result, results, walletResults, allResults,
                 chain, log, faults, summary, env, setup, di>>

MnemonicNext == MnemonicsLoaded

MnemonicSpec == MnemonicInit /\ [][MnemonicNext]_vars

(***************************************************************************)
(* scripts/approve-uniswap.ts: main from its first line.  The environment  *)
(* holds ALCHEMY_API_KEY and MNEMONIC_1..; WALLETS_PER_MNEMONIC is left    *)
(* unset, so one wallet is derived per mnemonic.  Every step before the    *)
(* batch is noted in `setup` with its result.                              *)
(***************************************************************************)
Step(step, ok) == [step |-> step, ok |-> ok]

\* A string Mnemonic.fromPhrase rejects.
InvalidPhrases == {"not a phrase"}

\* deriveWalletsFromMnemonic, wallet.ts 46-65, with numWallets = 1: the
\* address at m/44'/60'/0'/0/0 is a function of the phrase.
AddressOf(phrase) ==
  IF phrase = "phrase one" THEN WalletAddrList[1] ELSE WalletAddrList[2]

\* deriveAllWallets, wallet.ts 74-89: Mnemonic.fromPhrase throws on the first
\* phrase that is not valid.
DeriveAllWallets(phrases) ==
  IF \E i \in DOMAIN phrases : phrases[i] \in InvalidPhrases
    THEN Threw(ErrorObj("invalid mnemonic"))
    ELSE Returned([i \in DOMAIN phrases |-> AddressOf(phrases[i])])

\* lines 67-71: the choices of the token prompt.
AvailableTokens == <<"USDC", "VULT", "WETH">>

\* The elements of s at the positions in idxs, in the order of s.
Selected(s, idxs) ==
  [k \in 1..Cardinality(idxs) |->
     s[CHOOSE i \in idxs : Cardinality({j \in idxs : j < i}) = k - 1]]

\* prompts answers with an object; the property asked for is undefined when
\* the user cancelled.
Cancelled == [cancelled |-> TRUE]
TokenAnswers ==
  {Cancelled} \cup {[tokens |-> Selected(AvailableTokens, idxs)] :
                      idxs \in SUBSET DOMAIN AvailableTokens}
ConfirmAnswers == {Cancelled, [proceed |-> TRUE], [proceed |-> FALSE]}

\* What the user did at the confirmation prompt: answered yes.
AnsweredYes(answer) == answer = [proceed |-> TRUE]

\* Mutant: only an explicit 'no' stops the run.
Proceeds_unlessNo(answer) == ~Has(answer, "proceed") \/ answer.proceed

\* line 127, negated: proceed is neither undefined nor false.
Proceeds(answer) == Has(answer, "proceed") /\ answer.proceed

\* throw inside main's try block: control passes to the catch of line 154.
Throw(error) ==
  /\ exception' = <<error>>
  /\ pc' = "main_catch"

\* The values of MNEMONIC_1.. the script is started with.  loadMnemonics
\* reads up to the first gap: behind it a variable is unset or holds a
\* phrase, the other values make no difference there.
ScriptSlots ==
  {slots \in [1..MaxEnv -> EnvValues \cup {EnvString(ph) : ph \in InvalidPhrases}] :
     \A i \in 1..MaxEnv :
       (\E j \in 1..(i - 1) : ~IsSet(slots[j])) =>
         slots[i] \in {Unset, EnvString("phrase one")}}

ScriptInit ==
  /\ pc = "script_start"
  /\ \E key \in {Unset, EnvString(""), EnvString("key")} :
       \E slots \in ScriptSlots :
         env = [ALCHEMY_API_KEY |-> key, MNEMONIC |-> slots]
  /\ \E a \in LowAllowances \cup {MAX_UINT256} :
       allowance = [tr \in WalletAddrs \X Range(AvailableTokens) \X SpenderAddrs |-> a]
  /\ txs = <<>>
  /\ wallets = <<>> /\ tokenAddresses = <<>> /\ spenders = <<>>
  \* line 144: the literal `true`
  /\ waitForConfirmation = TRUE
  /\ mnemonics = <<>>
  /\ setup = <<>>
  /\ di = 1
  /\ summary = NoSummary
  /\ si = 1 /\ wi = 1 /\ ti = 1
  /\ result = NoResult
  /\ results = <<>> /\ walletResults = <<>> /\ allResults = <<>>
  /\ log = <<>>
  /\ exception = NoException
  /\ faults = 0

\* lines 34-39, provider.ts 12-25 and 33-34: getProvider() throws without
\* ALCHEMY_API_KEY; else testProviderConnection is called and asks for the
\* network.
ScriptStart ==
  /\ pc = "script_start"
  /\ setup' = Append(setup, Step("getProvider", IsSet(env.ALCHEMY_API_KEY)))
  /\ IF IsSet(env.ALCHEMY_API_KEY)
       THEN pc' = "get_network" /\ exception' = exception
       ELSE Throw(ErrorObj("ALCHEMY_API_KEY is not set in environment variables. Please check your .env file."))
  /\ UNCHANGED <<inputs, si, wi, ti, result, results, walletResults, allResults,
                 chain, log, faults, summary, env, mnemonics, di>>

\* lines 40-42: testProviderConnection answered false.
ConnectionFailed ==
  /\ Throw(ErrorObj("Failed to connect to Ethereum network"))
  /\ setup' = Append(setup, Step("testProviderConnection", FALSE))
  /\ UNCHANGED <<mnemonics, wallets, di>>

\* provider.ts 34-37 and 41-43: getNetwork() answers and the block number is
\* asked for, or it rejects and testProviderConnection returns false.
GetNetworkReturns ==
  /\ pc = "get_network"
  /\ \E answered \in BOOLEAN :
       IF answered
         THEN /\ pc' = "get_block_number"
              /\ UNCHANGED <<exception, setup, mnemonics, wallets, di>>
         ELSE ConnectionFailed
  /\ UNCHANGED <<tokenAddresses, spenders, waitForConfirmation, si, wi, ti, result,
                 results, walletResults, allResults, chain, log, faults, summary, env>>

\* wallet.ts 102-104: displayWalletInfo enters its loop and asks for the
\* balance of the first wallet; with no wallet it returns at once.
EnterWalletInfo(ws) ==
  /\ di' = 1
  /\ IF Len(ws) >= 1
       THEN /\ pc' = "get_balance"
            /\ setup' = setup \o <<Step("testProviderConnection", TRUE),
                                    Step("loadMnemonics", TRUE),
                                    Step("deriveAllWallets", TRUE)>>
       ELSE /\ pc' = "token_prompt"
            /\ setup' = setup \o <<Step("testProviderConnection", TRUE),
                                    Step("loadMnemonics", TRUE),
                                    Step("deriveAllWallets", TRUE),
                                    Step("displayWalletInfo", TRUE)>>

\* provider.ts 37-43 and lines 39-62: getBlockNumber() answers or rejects;
\* on an answer testProviderConnection returns true, the mnemonics are
\* loaded, the wallets derived and displayWalletInfo is called.
ScriptConnect ==
  /\ pc = "get_block_number"
  /\ \E answered \in BOOLEAN :
       LET loaded == LoadMnemonics(env.MNEMONIC)
           derived == DeriveAllWallets(loaded.returned)
           connected == Step("testProviderConnection", TRUE)
       IN IF ~answered
            THEN ConnectionFailed
            ELSE IF Has(loaded, "threw")
              THEN /\ Throw(loaded.threw)
                   /\ setup' = setup \o <<connected, Step("loadMnemonics", FALSE)>>
                   /\ UNCHANGED <<mnemonics, wallets, di>>
              ELSE IF Has(derived, "threw")
                THEN /\ Throw(derived.threw)
                     /\ setup' = setup \o <<connected, Step("loadMnemonics", TRUE),
                                             Step("deriveAllWallets", FALSE)>>
                     /\ mnemonics' = loaded.returned
                     /\ UNCHANGED <<wallets, di>>
                ELSE /\ EnterWalletInfo(derived.returned)
                     /\ exception' = exception
                     /\ mnemonics' = loaded.returned
                     /\ wallets' = derived.returned
  /\ UNCHANGED <<tokenAddresses, spenders, waitForConfirmation, si, wi, ti, result,
                 results, walletResults, allResults, chain, log, faults, summary, env>>

\* line 62, wallet.ts 102-122: getBalance of wallet i answers, and the next
\* balance is asked for or, after the last wallet, displayWalletInfo returns
\* and the token prompt is shown; or getBalance rejects.
ScriptWalletInfo ==
  /\ pc = "get_balance"
  /\ \/ /\ exception' = exception
        /\ di' = di + 1
        /\ IF di < Len(wallets)
             THEN pc' = "get_balance" /\ setup' = setup
             ELSE /\ pc' = "token_prompt"
                  /\ setup' = Append(setup, Step("displayWalletInfo", TRUE))
     \/ \E error \in Exceptions :
          /\ Throw(error)
          /\ setup' = Append(setup, Step("displayWalletInfo", FALSE))
          /\ di' = di
  /\ UNCHANGED <<inputs, si, wi, ti, result, results, walletResults, allResults,
                 chain, log, faults, summary, env, mnemonics>>

\* lines 73-124: the token prompt is answered; a cancelled prompt or an empty
\* selection ends the process; else the confirmation prompt is shown.
ScriptTokenPrompt ==
  /\ pc = "token_prompt"
  /\ \E answer \in TokenAnswers :
       IF ~Has(answer, "tokens") \/ Len(answer.tokens) = 0
         THEN /\ pc' = "exit0"
              /\ setup' = Append(setup, Step("tokens", FALSE))
              /\ UNCHANGED <<tokenAddresses, spenders>>
         ELSE /\ Len(wallets) * Len(answer.tokens) * Len(SpenderAddrList) <= MaxTriples
              /\ tokenAddresses' = answer.tokens
              /\ spenders' = SpenderAddrList
              /\ pc' = "confirm_prompt"
              /\ setup' = Append(setup, Step("tokens", TRUE))
  /\ UNCHANGED <<wallets, waitForConfirmation, si, wi, ti, result, results,
                 walletResults, allResults, chain, log, exception, faults, summary,
                 env, mnemonics, di>>

\* lines 126-131: the confirmation prompt is answered; only 'yes' reaches the
\* loop over the spenders.
ScriptConfirmPrompt ==
  /\ pc = "confirm_prompt"
  /\ \E answer \in ConfirmAnswers :
       /\ setup' = Append(setup, Step("proceed", AnsweredYes(answer)))
       /\ IF Proceeds(answer)
            THEN /\ pc' = "main_loop"
                 /\ allResults' = <<>>
                 /\ si' = 1
            ELSE /\ pc' = "exit0"
                 /\ UNCHANGED <<allResults, si>>
  /\ UNCHANGED <<inputs, wi, ti, result, results, walletResults, chain, log,
                 exception, faults, summary, env, mnemonics, di>>

ScriptNext ==
  \/ ScriptStart
  \/ GetNetworkReturns
  \/ ScriptConnect
  \/ ScriptWalletInfo
  \/ ScriptTokenPrompt
  \/ ScriptConfirmPrompt
  \/ MainLoop
  \/ AFMWLoop
  \/ AMTLoop
  \/ SymbolReturns
  \/ DecimalsReturns
  \/ AllowanceReturns
  \/ ApproveReturns
  \/ WaitReturns
  \/ ChainCallRaises
  \/ MainCatch
  \/ ChainMines

ScriptSpec == ScriptInit /\ [][ScriptNext]_vars

\* The steps of the program and the answers of the chain: every awaited
\* chain call returns or raises and the continuation runs.
ProgramStep ==
  \/ MainLoop
  \/ AFMWLoop
  \/ AMTLoop
  \/ SymbolReturns
  \/ DecimalsReturns
  \/ AllowanceReturns
  \/ ApproveReturns
  \/ WaitReturns
  \/ ChainCallRaises

\* The batch under the assumption that every chain call is answered.
LiveSpec == Spec /\ WF_vars(ProgramStep)


(***************************************************************************)
(* Properties                                                              *)
(***************************************************************************)
W == Len(wallets)
T == Len(tokenAddresses)
S == Len(spenders)
Total == S * W * T

\* 1-based position of (spender s, wallet w, token t) in spender-major order.
Pos(s, w, t) == ((s - 1) * W + (w - 1)) * T + t
\* The index triple <<s, w, t>> at 1-based position m.
TripleAt(m) ==
  <<((m - 1) \div (W * T)) + 1, (((m - 1) \div T) % W) + 1, ((m - 1) % T) + 1>>

\* The outcomes collected so far, in the order collected.
Collected == allResults \o walletResults \o results

AddrTriple(r) == <<r.walletAddress, r.tokenAddress, r.spenderAddress>>
Succeeded(r) == r.success /\ ~r.skipped
Failed(r) == ~r.success

\* The message of what a chain call raised.
MessageOf(e) == IF e.isError THEN e.message ELSE e.value

IsCall(i, op, out) == log[i].op = op /\ log[i].out = out
\* Entry i is followed at once by the return of the same approveToken call.
ReturnsNext(i) ==
  /\ i + 1 \in DOMAIN log
  /\ log[i + 1].op = "return"
  /\ log[i + 1].k = log[i].k

\* C1: a completed batch returns exactly w*t*s outcome records, one per
\* (spender, wallet, token) combination and carrying its three addresses,
\* whatever chain calls failed.
C1_Completeness ==
  pc = "done" =>
    /\ Len(allResults) = W * T * S
    /\ \A tr \in WalletAddrs \X TokenAddrs \X SpenderAddrs :
         Cardinality({p \in DOMAIN allResults : AddrTriple(allResults[p]) = tr})
           = Cardinality({c \in (DOMAIN spenders) \X (DOMAIN wallets) \X (DOMAIN tokenAddresses) :
                            <<wallets[c[2]], tokenAddresses[c[3]], spenders[c[1]]>> = tr})

C1_Witness ==
  /\ pc = "done"
  /\ W = 2 /\ Total = 4
  /\ \E p \in DOMAIN allResults : Failed(allResults[p])
  /\ \E p \in DOMAIN allResults : Succeeded(allResults[p])

\* C2: when the submission or the confirmation of triple N raises, the batch
\* is not aborted: no error reaches main's catch once a triple was started,
\* the outcome of N is collected, and in the completed batch approveToken was
\* called for every later triple and returned an outcome for each.
C2_FailureIsolation ==
  /\ exception = NoException /\ pc \notin {"main_catch", "exit1"}
  /\ \A i \in DOMAIN log :
       (log[i].out = "raised" /\ log[i].op \in {"approve", "wait"}) =>
         /\ Len(Collected) >= log[i].k
         /\ pc = "done" =>
              /\ Len(allResults) = Total
              /\ \A k \in (log[i].k + 1)..Total :
                   /\ \E j \in DOMAIN log : j > i /\ log[j].op = "approveToken" /\ log[j].k = k
                   /\ \E j \in DOMAIN log : j > i /\ log[j].op = "return" /\ log[j].k = k

C2_Witness ==
  /\ pc = "done"
  /\ \E i \in DOMAIN log :
       /\ log[i].out = "raised" /\ log[i].op \in {"approve", "wait"}
       /\ log[i].k < Total
       /\ \E j \in DOMAIN log : j > i /\ log[j].op = "return" /\ log[j].k = Total

\* C3: when the allowance read returns a value >= 2^256-1, approveToken
\* returns at once a skipped outcome without transaction identifier and
\* without error; no approve is submitted and no confirmation awaited for
\* that triple, and the chain holds no transaction but those submitted.
C3_SkipCorrectness ==
  /\ Len(txs) = Cardinality({j \in DOMAIN log : IsCall(j, "approve", "ok")})
  /\ \A i \in DOMAIN log :
       (IsCall(i, "allowance", "ok") /\ GE256(log[i].ret, MAX_UINT256)) =>
         /\ ReturnsNext(i)
         /\ LET r == log[i + 1].ret IN
              r.success /\ r.skipped /\ ~Has(r, "txHash") /\ ~Has(r, "error")
         /\ ~\E j \in DOMAIN log : log[j].k = log[i].k /\ log[j].op \in {"approve", "wait"}

C3_Witness ==
  \E i \in DOMAIN log :
    /\ IsCall(i, "allowance", "ok") /\ log[i].ret = MAX_UINT256
    /\ ReturnsNext(i)
    /\ Len(txs) > 0

\* C4: when the allowance read returns a value < 2^256-1, exactly one approve
\* is submitted for that triple (in flight, or answered), with the triple's
\* spender and the amount 2^256-1; when the submission returns, the
\* transaction is on the chain and the outcome's transaction identifier is
\* the identifier the submission returned.
C4_SendCorrectness ==
  \A i \in DOMAIN log :
    (IsCall(i, "allowance", "ok") /\ ~GE256(log[i].ret, MAX_UINT256)) =>
      LET k == log[i].k
          subs == {j \in DOMAIN log : log[j].op = "approve" /\ log[j].k = k}
      IN
        /\ IF pc = "approve" /\ Invocations = k
             THEN subs = {}
             ELSE subs = {i + 1}
        /\ \A j \in subs :
             /\ log[j].args = <<spenders[log[i].idx[1]], MAX_UINT256>>
             /\ log[j].out = "ok" =>
                  /\ log[j].ret \in DOMAIN txs
                  /\ txs[log[j].ret].from = wallets[log[i].idx[2]]
                  /\ txs[log[j].ret].to = tokenAddresses[log[i].idx[3]]
                  /\ txs[log[j].ret].spender = spenders[log[i].idx[1]]
                  /\ txs[log[j].ret].amount = MAX_UINT256
                  /\ \A m \in DOMAIN log :
                       (log[m].op = "return" /\ log[m].k = k) =>
                         /\ Has(log[m].ret, "txHash")
                         /\ log[m].ret.txHash = log[j].ret

C4_Witness ==
  \E i \in DOMAIN log :
    /\ IsCall(i, "allowance", "ok") /\ log[i].ret = MaxMinusOne256
    /\ i + 1 \in DOMAIN log /\ IsCall(i + 1, "approve", "ok")
    /\ \E m \in DOMAIN log : log[m].op = "return" /\ log[m].k = log[i].k

\* C5: an exception raised by the symbol read, the decimals read, the
\* allowance read or the approve submission is caught in approveToken, which
\* returns a failed outcome whose error is the exception's message; no
\* per-triple error reaches the caller of the three functions.
C5_ErrorsContained ==
  /\ exception = NoException
  /\ pc \notin {"main_catch", "exit1"}
  /\ \A i \in DOMAIN log :
       (log[i].out = "raised" /\ log[i].op \in {"symbol", "decimals", "allowance", "approve"}) =>
         /\ ReturnsNext(i)
         /\ LET r == log[i + 1].ret IN
              /\ Failed(r) /\ ~r.skipped
              /\ Has(r, "error") /\ r.error = MessageOf(log[i].ret)
              /\ Len(Collected) >= log[i].k /\ Collected[log[i].k] = r

C5_Witness ==
  /\ pc = "done"
  /\ \E i \in DOMAIN log :
       /\ IsCall(i, "approve", "raised")
       /\ log[i].ret = ErrorObj("insufficient funds")
       /\ allResults[log[i].k].error = "insufficient funds"

\* With confirm = true and a submission that returned: the outcome is
\* succeeded exactly when the wait returns a receipt with success status; a
\* receipt with failure status gives a failed outcome with the fixed error
\* text `text`; the transaction identifier stays in the outcome.
ReceiptDecides(text) ==
  /\ \A i \in DOMAIN log :
       IsCall(i, "wait", "ok") =>
         /\ waitForConfirmation
         /\ IsCall(i - 1, "approve", "ok") /\ log[i - 1].k = log[i].k
         /\ ReturnsNext(i)
         /\ LET r == log[i + 1].ret
                receipt == log[i].ret
            IN
              /\ Succeeded(r) <=> (~IsNull(receipt) /\ receipt.status = 1)
              /\ (~IsNull(receipt) /\ receipt.status = 0) =>
                   Failed(r) /\ Has(r, "error") /\ r.error = text
              /\ Has(r, "txHash") /\ r.txHash = log[i - 1].ret
  /\ \A m \in DOMAIN log :
       (waitForConfirmation /\ log[m].op = "return" /\ Succeeded(log[m].ret)) =>
         /\ IsCall(m - 1, "wait", "ok")
         /\ ~IsNull(log[m - 1].ret) /\ log[m - 1].ret.status = 1

\* C6 as stated: the fixed error text is "transaction failed".
C6_Original == ReceiptDecides("transaction failed")

\* C6 amended: as C6, the fixed error text being "Transaction failed".
C6_ReceiptDecides == ReceiptDecides("Transaction failed")

C6_Witness ==
  \E i \in DOMAIN log :
    /\ IsCall(i, "wait", "ok")
    /\ ~IsNull(log[i].ret) /\ log[i].ret.status = 0
    /\ ReturnsNext(i)
    /\ Failed(log[i + 1].ret)

\* C7: with confirm = true, when the confirmation wait raises after a
\* submission that returned, the outcome is failed, its error is the message
\* raised and it carries the identifier the submission returned; the
\* identifier is in the result while the wait is in progress.
C7_WaitRaises ==
  /\ pc = "wait" =>
       /\ Has(result, "txHash")
       /\ IsCall(Len(log), "approve", "ok")
       /\ result.txHash = log[Len(log)].ret
  /\ \A i \in DOMAIN log :
       IsCall(i, "wait", "raised") =>
         /\ waitForConfirmation
         /\ IsCall(i - 1, "approve", "ok") /\ log[i - 1].k = log[i].k
         /\ ReturnsNext(i)
         /\ LET r == log[i + 1].ret IN
              /\ Failed(r)
              /\ Has(r, "error") /\ r.error = MessageOf(log[i].ret)
              /\ Has(r, "txHash") /\ r.txHash = log[i - 1].ret

C7_Witness ==
  \E i \in DOMAIN log :
    /\ IsCall(i, "wait", "raised")
    /\ ReturnsNext(i)
    /\ Has(log[i + 1].ret, "txHash")

\* C8: with confirm = false, a submission that returns makes the outcome
\* succeeded at once, with the identifier returned; no confirmation wait is
\* ever in progress or answered, and the collected outcome is the same
\* whether the transaction is pending, mined with success or reverted.
C8_FireAndForget ==
  ~waitForConfirmation =>
    /\ pc # "wait"
    /\ ~\E i \in DOMAIN log : log[i].op = "wait"
    /\ \A i \in DOMAIN log :
         IsCall(i, "approve", "ok") =>
           /\ ReturnsNext(i)
           /\ LET r == log[i + 1].ret IN
                /\ Succeeded(r)
                /\ Has(r, "txHash") /\ r.txHash = log[i].ret
                /\ ~Has(r, "error")
                /\ Len(Collected) >= log[i].k /\ Collected[log[i].k] = r
                /\ txs[log[i].ret].status \in {"pending", "success", "reverted"}

C8_Witness ==
  /\ ~waitForConfirmation
  /\ \E i \in DOMAIN log :
       /\ IsCall(i, "approve", "ok")
       /\ txs[log[i].ret].status = "reverted"
       /\ Succeeded(Collected[log[i].k])

\* C9: for every wallet (a position of the wallet list), the approve
\* submissions made from it follow the spender list first and the token list
\* within each spender: each submission carries the addresses of its
\* (spender, token) position, and of two submissions the earlier one has the
\* earlier position; the chain receives the transactions in that order.
C9_PerWalletOrder ==
  /\ \A i \in DOMAIN log :
       log[i].op = "approve" =>
         /\ log[i].wallet = wallets[log[i].idx[2]]
         /\ log[i].token = tokenAddresses[log[i].idx[3]]
         /\ log[i].args[1] = spenders[log[i].idx[1]]
  /\ \A i \in DOMAIN log :
       log[i].op = "approve" =>
         \A j \in (i + 1)..Len(log) :
           (log[j].op = "approve" /\ log[i].idx[2] = log[j].idx[2]) =>
             /\ \/ log[i].idx[1] < log[j].idx[1]
                \/ log[i].idx[1] = log[j].idx[1] /\ log[i].idx[3] < log[j].idx[3]
             /\ (log[i].out = "ok" /\ log[j].out = "ok") => log[i].ret < log[j].ret

C9_Witness ==
  /\ S = 2 /\ T = 2
  /\ tokenAddresses[1] # tokenAddresses[2]
  /\ Len(txs) = 4

\* C10: the returned sequence is ordered by spender, then wallet, then token:
\* the record at 0-based position (si*w + wi)*t + ti is the outcome approveToken
\* returned for (spender si, wallet wi, token ti); and approveToken is called
\* for the triples in exactly that order.
C10_OutcomeOrder ==
  /\ \A i \in DOMAIN log :
       log[i].op = "approveToken" =>
         /\ log[i].idx = TripleAt(log[i].k)
         /\ log[i].k = Cardinality({j \in 1..i : log[j].op = "approveToken"})
         /\ log[i].args = <<wallets[log[i].idx[2]], tokenAddresses[log[i].idx[3]],
                            spenders[log[i].idx[1]], waitForConfirmation>>
  /\ pc = "done" =>
       \A s \in DOMAIN spenders, w \in DOMAIN wallets, t \in DOMAIN tokenAddresses :
         /\ Pos(s, w, t) \in DOMAIN allResults
         /\ AddrTriple(allResults[Pos(s, w, t)]) = <<wallets[w], tokenAddresses[t], spenders[s]>>
         /\ \E m \in DOMAIN log :
              /\ log[m].op = "return" /\ log[m].idx = <<s, w, t>>
              /\ log[m].ret = allResults[Pos(s, w, t)]

C10_Witness ==
  /\ pc = "done"
  /\ S = 2 /\ W = 2 /\ T = 1
  /\ wallets[1] # wallets[2] /\ spenders[1] # spenders[2]
  /\ Failed(allResults[2]) /\ Succeeded(allResults[3])


InCall == pc \in {"symbol", "decimals", "allowance", "approve", "wait"}
ChainOps == {"symbol", "decimals", "allowance", "approve", "wait"}

\* C11: processing is strictly sequential: at most one approveToken call is
\* in progress; the history is a chain of blocks, one per triple in order,
\* each made of the call of approveToken, its chain calls one after the
\* other, and its return, so that no call for triple k+1 happens before the
\* return for triple k; and with confirm = true a call whose submission
\* returned does not return before its confirmation wait returned or raised.
C11_Sequential ==
  LET open == Cardinality({i \in DOMAIN log : log[i].op = "approveToken"})
                - Cardinality({i \in DOMAIN log : log[i].op = "return"})
  IN
    /\ IF InCall THEN open = 1 ELSE open = 0
    /\ InCall <=> result # NoResult
    /\ InCall <=> (log # <<>> /\ log[Len(log)].op # "return")
    /\ \A i \in DOMAIN log :
         CASE log[i].op = "approveToken" ->
                IF i = 1
                  THEN log[i].k = 1
                  ELSE log[i - 1].op = "return" /\ log[i].k = log[i - 1].k + 1
           [] log[i].op = "return" ->
                /\ i > 1
                /\ log[i - 1].op \in ChainOps
                /\ log[i - 1].k = log[i].k
           [] OTHER ->
                /\ log[i].op \in ChainOps
                /\ i > 1
                /\ log[i - 1].op \in ChainOps \cup {"approveToken"}
                /\ log[i - 1].k = log[i].k
                /\ log[i - 1].op \in ChainOps => log[i - 1].out = "ok"
    /\ \A i \in DOMAIN log :
         (waitForConfirmation /\ IsCall(i, "approve", "ok")) =>
           IF i = Len(log)
             THEN pc = "wait"
             ELSE log[i + 1].op = "wait" /\ log[i + 1].k = log[i].k

C11_Witness ==
  /\ pc = "wait"
  /\ Invocations = 2
  /\ \E i \in DOMAIN log : log[i].op = "wait" /\ log[i].k = 1

\* The later approveToken calls on the address triple of a call that, with
\* confirm = true, returned succeeded: pairs <<m, c>> of the return entry and
\* the later call entry.
LaterRuns ==
  IF ~waitForConfirmation
    THEN {}
    ELSE UNION {
      {<<m, c>> : c \in {c \in (m + 1)..Len(log) :
                           /\ log[c].op = "approveToken"
                           /\ log[c].args[1] = log[m].ret.walletAddress
                           /\ log[c].args[2] = log[m].ret.tokenAddress
                           /\ log[c].args[3] = log[m].ret.spenderAddress}} :
      m \in {m \in DOMAIN log : log[m].op = "return" /\ Succeeded(log[m].ret)}}

\* C14 as stated: after a run with confirm = true that ended succeeded, every
\* later run on the same triple yields skipped and submits no transaction.
C14_Original ==
  \A mc \in LaterRuns :
    /\ ~\E j \in DOMAIN log : log[j].op = "approve" /\ log[j].k = log[mc[2]].k
    /\ \A n \in DOMAIN log :
         (log[n].op = "return" /\ log[n].k = log[mc[2]].k) =>
           log[n].ret.success /\ log[n].ret.skipped

\* C14 amended: after a run with confirm = true that ended succeeded, no later
\* run on the same triple submits a transaction; a later run yields skipped
\* when its three reads return, and failed when one of them raises.
C14_Idempotence ==
  \A mc \in LaterRuns :
    /\ ~\E j \in DOMAIN log : log[j].op = "approve" /\ log[j].k = log[mc[2]].k
    /\ allowance[<<log[mc[2]].args[1], log[mc[2]].args[2], log[mc[2]].args[3]>>] = MAX_UINT256
    /\ \A n \in DOMAIN log :
         (log[n].op = "return" /\ log[n].k = log[mc[2]].k) =>
           IF log[n - 1].out = "raised"
             THEN /\ log[n - 1].op \in {"symbol", "decimals", "allowance"}
                  /\ Failed(log[n].ret)
             ELSE /\ IsCall(n - 1, "allowance", "ok")
                  /\ log[n].ret.success /\ log[n].ret.skipped
                  /\ ~Has(log[n].ret, "txHash")

C14_Witness ==
  \E mc \in LaterRuns :
    \E n \in DOMAIN log :
      /\ log[n].op = "return" /\ log[n].k = log[mc[2]].k
      /\ log[n].ret.skipped
      /\ \E i \in DOMAIN log :
           IsCall(i, "allowance", "ok") /\ log[i].k = log[mc[1]].k
             /\ log[i].ret = Zero256

\* C15: when every chain call is answered, a batch that was started ends and
\* returns; and it returns only when approveToken was called and has returned
\* for every triple, none being in progress.
C15_Terminates ==
  /\ (pc = "main_loop") ~> (pc = "done")
  /\ [](pc = "done" =>
          /\ Invocations = Total
          /\ Cardinality({i \in DOMAIN log : log[i].op = "return"}) = Total
          /\ Len(allResults) = Total
          /\ result = NoResult /\ results = <<>> /\ walletResults = <<>>)

C15_Witness ==
  /\ pc = "done"
  /\ Total = 4
  /\ faults = 1
  /\ Len(txs) >= 2

\* C16: in every record approveToken returns, a transaction identifier is
\* present only if an approve submission of that call returned (and is the
\* identifier it returned), and an error is present only if the record is
\* failed.
C16_OptionalFields ==
  \A n \in DOMAIN log :
    log[n].op = "return" =>
      /\ Has(log[n].ret, "txHash") =>
           \E j \in DOMAIN log :
             /\ j < n /\ IsCall(j, "approve", "ok") /\ log[j].k = log[n].k
             /\ log[j].ret = log[n].ret.txHash
      /\ Has(log[n].ret, "error") => Failed(log[n].ret) /\ ~log[n].ret.skipped

C16_Witness ==
  \E n \in DOMAIN log :
    /\ log[n].op = "return"
    /\ Has(log[n].ret, "txHash") /\ Has(log[n].ret, "error")

\* C17: at the end of a batch with confirm = true, every triple whose outcome
\* is succeeded or skipped has an allowance >= 2^256-1 on the chain.
C17_EndToEnd ==
  (pc = "done" /\ waitForConfirmation) =>
    \A p \in DOMAIN allResults :
      allResults[p].success =>
        GE256(allowance[AddrTriple(allResults[p])], MAX_UINT256)

C17_Witness ==
  /\ pc = "done" /\ waitForConfirmation
  /\ \E p \in DOMAIN allResults :
       /\ Succeeded(allResults[p])
       /\ \E i \in DOMAIN log :
            IsCall(i, "allowance", "ok") /\ log[i].k = p /\ log[i].ret = MaxMinusOne256
  /\ \E p \in DOMAIN allResults :
       /\ Failed(allResults[p])
       /\ ~GE256(allowance[AddrTriple(allResults[p])], MAX_UINT256)

\* The allowance read at entry i is the latest thing the program saw of the
\* chain: it is the last entry, or only the return of the same call follows.
LatestRead(i) ==
  /\ IsCall(i, "allowance", "ok")
  /\ \/ i = Len(log)
     \/ i + 1 = Len(log) /\ log[i + 1].op = "return"

\* C20: every approve submission directly follows, in the same approveToken
\* call, an allowance read of the same (wallet, token, spender) that returned
\* a value below 2^256-1; and every allowance read returns the value the
\* chain holds when it is made, never one read before.
C20_FreshAllowance ==
  /\ \A i \in DOMAIN log :
       log[i].op = "approve" =>
         /\ i > 1
         /\ IsCall(i - 1, "allowance", "ok")
         /\ log[i - 1].k = log[i].k
         /\ log[i - 1].token = log[i].token
         /\ log[i - 1].args = <<log[i].wallet, log[i].args[1]>>
         /\ ~GE256(log[i - 1].ret, MAX_UINT256)
  /\ pc = "approve" =>
       /\ IsCall(Len(log), "allowance", "ok")
       /\ log[Len(log)].k = Invocations
       /\ ~GE256(log[Len(log)].ret, MAX_UINT256)
  /\ \A i \in DOMAIN log :
       LatestRead(i) =>
         log[i].ret = allowance[<<log[i].args[1], log[i].token, log[i].args[2]>>]

C20_Witness ==
  \E i, j \in DOMAIN log :
    /\ i < j
    /\ IsCall(i, "allowance", "ok") /\ IsCall(j, "allowance", "ok")
    /\ log[i].token = log[j].token /\ log[i].args = log[j].args
    /\ log[i].ret # log[j].ret
    /\ LatestRead(j)


\* C12: for any list of records handed to displayApprovalSummary, the three
\* numbers printed add up to the total, and the failure listing has as many
\* entries as the number printed as failed.
C12_CountsAddUp ==
  summary # NoSummary =>
    /\ summary.total = Len(allResults)
    /\ summary.successful + summary.skipped + summary.failed = summary.total
    /\ Len(summary.failures) = summary.failed

\* C13: the failure listing holds exactly the failed records, in the order of
\* the batch, and each entry shows the wallet, the token, the spender and the
\* error of its record.
C13_FailureDetails ==
  summary # NoSummary =>
    LET failedRecords == SelectSeq(allResults, Failed)
    IN /\ Len(summary.failures) = Len(failedRecords)
       /\ \A p \in DOMAIN failedRecords :
            /\ summary.failures[p].walletAddress = failedRecords[p].walletAddress
            /\ summary.failures[p].tokenAddress = failedRecords[p].tokenAddress
            /\ Has(summary.failures[p], "spenderAddress")
            /\ summary.failures[p].spenderAddress = failedRecords[p].spenderAddress
            /\ Has(failedRecords[p], "error") =>
                 /\ Has(summary.failures[p], "error")
                 /\ summary.failures[p].error = failedRecords[p].error


\* The slots of MNEMONIC_1.. that are set to a string that is not empty.
NonEmptySlots ==
  {i \in DOMAIN env.MNEMONIC :
     Has(env.MNEMONIC[i], "value") /\ env.MNEMONIC[i].value # ""}

\* The largest k with MNEMONIC_1..MNEMONIC_k all set and not empty.
Prefix ==
  CHOOSE k \in 0..Len(env.MNEMONIC) :
    /\ \A i \in 1..k : i \in NonEmptySlots
    /\ (k + 1) \notin NonEmptySlots

\* C19: loadMnemonics returns MNEMONIC_1..MNEMONIC_k in index order, k being
\* the largest index with 1..k all set and not empty; variables after the
\* first gap are ignored; with k = 0 it throws.
C19_LoadMnemonics ==
  /\ pc = "loaded" =>
       /\ Prefix >= 1
       /\ Len(mnemonics) = Prefix
       /\ \A i \in 1..Prefix : mnemonics[i] = env.MNEMONIC[i].value
       /\ exception = NoException
  /\ pc = "load_threw" =>
       /\ Prefix = 0
       /\ mnemonics = <<>>
       /\ Len(exception) = 1 /\ exception[1].isError

C19_Witness ==
  /\ pc = "loaded"
  /\ Len(mnemonics) = 1
  /\ 2 \notin NonEmptySlots
  /\ 3 \in NonEmptySlots


\* The batch was reached: the orchestrator was invoked or is about to be.
BatchReached ==
  \/ pc \in {"main_loop", "afmw_loop", "amt_loop", "done"}
  \/ InCall
  \/ log # <<>>
  \/ txs # <<>>

\* The setup steps a, b, c, d happened in this order, all with success.
InOrder(a, b, c, d) ==
  \E i \in DOMAIN setup :
    /\ setup[i] = Step(a, TRUE)
    /\ \E j \in (i + 1)..Len(setup) :
         /\ setup[j] = Step(b, TRUE)
         /\ \E k \in (j + 1)..Len(setup) :
              /\ setup[k] = Step(c, TRUE)
              /\ \E l \in (k + 1)..Len(setup) : setup[l] = Step(d, TRUE)

\* C18: in the approve-uniswap script approveToken is not called and no
\* transaction is submitted unless before, in this order, the connection
\* test succeeded, at least one mnemonic was loaded, at least one token was
\* selected and the final prompt was answered yes; after a failed connection,
\* a cancelled prompt or a 'no' the run ends with no transaction.
C18_Gate ==
  /\ BatchReached =>
       /\ InOrder("testProviderConnection", "loadMnemonics", "tokens", "proceed")
       /\ Len(mnemonics) >= 1 /\ Len(wallets) >= 1 /\ Len(tokenAddresses) >= 1
  /\ (\E i \in DOMAIN setup :
        /\ setup[i].step \in {"testProviderConnection", "tokens", "proceed"}
        /\ ~setup[i].ok) =>
       /\ txs = <<>> /\ log = <<>>
       /\ pc \in {"main_catch", "exit1", "exit0"}

C18_Witness ==
  /\ pc = "done"
  /\ Len(txs) >= 2
  /\ Len(mnemonics) = 2
  /\ setup[Len(setup)] = Step("proceed", TRUE)


\* C21: nothing is retried: no operation (the call of approveToken, each of
\* its five chain calls, its return) occurs twice for the same triple; the
\* k-th call of approveToken is for the k-th triple, so that a finished batch
\* has called it once per triple; a chain call that raised is followed at
\* once by the return; and the batch submits at most w*t*s transactions.
C21_NoRetry ==
  /\ Cardinality({<<log[i].k, log[i].op>> : i \in DOMAIN log}) = Len(log)
  /\ \A i \in DOMAIN log :
       /\ log[i].k \in 1..Total
       /\ log[i].idx = TripleAt(log[i].k)
       /\ log[i].out = "raised" => ReturnsNext(i)
  /\ Len(txs) <= Invocations
  /\ Invocations <= Total
  /\ pc = "done" => Invocations = Total

C21_Witness ==
  /\ pc = "done"
  /\ Total = 4
  /\ Len(txs) = 3
  /\ \E i \in DOMAIN log : IsCall(i, "approve", "raised")


\* The allowance read at entry i returned a value below 2^256-1 although an
\* approve for the same wallet, token and spender was submitted before.
ReadAfterSubmission(i) ==
  /\ IsCall(i, "allowance", "ok")
  /\ ~GE256(log[i].ret, MAX_UINT256)
  /\ \E j \in 1..(i - 1) :
       /\ IsCall(j, "approve", "ok")
       /\ log[j].wallet = log[i].wallet /\ log[j].token = log[i].token
       /\ log[j].args[1] = log[i].args[2]

\* The transactions on the chain for the triple read at entry i.
TxsOfRead(i) ==
  {h \in DOMAIN txs :
     <<txs[h].from, txs[h].to, txs[h].spender>> =
       <<log[i].wallet, log[i].token, log[i].args[2]>>}

\* C22: there is no de-duplication against transactions in flight: when
\* approveToken reads an allowance below 2^256-1 for a triple for which an
\* approve was submitted before, it goes on to submit approve again; once
\* that submission returned, the chain holds two transactions or more for
\* the triple.
C22_NoDeduplication ==
  \A i \in DOMAIN log :
    ReadAfterSubmission(i) =>
      IF i = Len(log)
        THEN pc = "approve"
        ELSE /\ log[i + 1].op = "approve" /\ log[i + 1].k = log[i].k
             /\ log[i + 1].out = "ok" => Cardinality(TxsOfRead(i)) >= 2

C22_Witness ==
  /\ waitForConfirmation
  /\ \E i \in DOMAIN log :
       /\ ReadAfterSubmission(i)
       /\ i < Len(log) /\ IsCall(i + 1, "approve", "ok")
       /\ \E h \in TxsOfRead(i) : h < log[i + 1].ret /\ txs[h].status = "pending"
       /\ \E j \in 1..(i - 1) : IsCall(j, "wait", "raised")


IsPrefix(a, b) == Len(a) <= Len(b) /\ SubSeq(b, 1, Len(a)) = a

IsReturn(e) == e.op = "return"

\* The records approveToken returned so far, in the order returned.
ReturnedRecords ==
  LET rets == SelectSeq(log, IsReturn)
  IN [p \in DOMAIN rets |-> rets[p].ret]

\* The collected records are the returned ones, one per triple processed, in
\* order and unchanged; a step adds at most one record at the end and leaves
\* the others as they are.
RecordsKept ==
  /\ [](Collected = ReturnedRecords)
  /\ [][/\ IsPrefix(Collected, Collected')
        /\ Len(Collected') <= Len(Collected) + 1]_vars

\* C23 as stated, the record being created at line 48: besides the above, no
\* field of the record under construction changes between its creation and
\* its return.
C23_Original ==
  /\ RecordsKept
  /\ [][(result # NoResult /\ result' # NoResult) => result' = result]_vars

\* C23 amended: approveToken returns one record per processed triple; once
\* returned, a record never changes, and the collected sequence is
\* append-only: a step adds at most one record at its end and never modifies,
\* reorders or removes a record collected before.  (Between lines 48 and 102
\* approveToken fills in the record it is going to return.)
C23_ImmutableOnceReturned ==
  /\ RecordsKept
  /\ [](result # NoResult =>
          /\ result.walletAddress = CurWallet
          /\ result.tokenAddress = CurToken
          /\ result.spenderAddress = CurSpender)

C23_Witness ==
  /\ pc = "wait"
  /\ Has(result, "txHash")
  /\ Len(allResults) = 2 /\ Len(walletResults) = 0 /\ Len(results) = 1
  /\ Collected[1] # Collected[2]


\* The operation that comes right before `op` inside approveToken.
Before(op) ==
  CASE op = "symbol" -> "approveToken"
    [] op = "decimals" -> "symbol"
    [] op = "allowance" -> "decimals"
    [] op = "approve" -> "allowance"
    [] op = "wait" -> "approve"

\* C24: within one approveToken call the chain calls are made in the order
\* symbol, decimals, allowance, approve, wait, each only after the one
\* before it returned (this holds for the call in flight too); when the
\* symbol or the decimals read raises, approveToken returns at once a failed
\* outcome, and no allowance read and no approve happen for that triple.
C24_FixedOrder ==
  /\ \A i \in DOMAIN log :
       log[i].op \in ChainOps =>
         /\ i > 1
         /\ log[i - 1].op = Before(log[i].op)
         /\ log[i - 1].k = log[i].k
         /\ log[i - 1].out = IF log[i].op = "symbol" THEN "call" ELSE "ok"
  /\ InCall =>
       /\ log # <<>>
       /\ log[Len(log)].op = Before(pc)
       /\ log[Len(log)].k = Invocations
       /\ log[Len(log)].out = IF pc = "symbol" THEN "call" ELSE "ok"
  /\ \A i \in DOMAIN log :
       (log[i].op \in {"symbol", "decimals"} /\ log[i].out = "raised") =>
         /\ ReturnsNext(i)
         /\ Failed(log[i + 1].ret)
         /\ ~Has(log[i + 1].ret, "txHash")
         /\ \A j \in DOMAIN log :
              log[j].k = log[i].k => log[j].op \notin {"allowance", "approve", "wait"}

C24_Witness ==
  /\ pc = "done"
  /\ \E i \in DOMAIN log : IsCall(i, "decimals", "raised")
  /\ \E i \in DOMAIN log : IsCall(i, "wait", "ok")


\* The collected records that carry a transaction identifier.
WithTxHash == {p \in DOMAIN Collected : Has(Collected[p], "txHash")}

\* C25: at every point of a batch, a collected record with a transaction
\* identifier names a transaction on the chain, submitted for the record's
\* triple, and no two records name the same one; a collected record without
\* identifier belongs to a call whose submission, if any, did not return;
\* and the transactions on the chain are those named by the collected
\* records and, while a confirmation is awaited, one more.
C25_PartialBatch ==
  /\ \A p \in WithTxHash :
       /\ Collected[p].txHash \in DOMAIN txs
       /\ <<txs[Collected[p].txHash].from, txs[Collected[p].txHash].to,
            txs[Collected[p].txHash].spender>> = AddrTriple(Collected[p])
  /\ Cardinality({Collected[p].txHash : p \in WithTxHash}) = Cardinality(WithTxHash)
  /\ \A i \in DOMAIN log :
       (IsCall(i, "approve", "ok") /\ log[i].k <= Len(Collected)) =>
         /\ log[i].k \in WithTxHash
         /\ Collected[log[i].k].txHash = log[i].ret
  /\ Len(txs) = Cardinality(WithTxHash) + (IF pc = "wait" THEN 1 ELSE 0)

C25_Witness ==
  /\ pc = "wait"
  /\ Len(txs) = 3
  /\ Cardinality(WithTxHash) = 2
  /\ Len(Collected) = 3
  /\ \E i \in DOMAIN log : IsCall(i, "wait", "raised")


\* The identifiers the approve submissions of call k returned.
SubmittedIn(k) ==
  {log[j].ret : j \in {j \in DOMAIN log : IsCall(j, "approve", "ok") /\ log[j].k = k}}

\* The outcome of a triple as a function of the input lists, the confirm
\* flag and the answers to the triple's own chain calls alone: `last` is the
\* answer to the last chain call of the triple, `hashes` the identifiers its
\* submissions returned.
OutcomeFrom(idx, last, hashes) ==
  LET base == [success |-> FALSE, skipped |-> FALSE,
               walletAddress |-> wallets[idx[2]],
               tokenAddress |-> tokenAddresses[idx[3]],
               spenderAddress |-> spenders[idx[1]]]
      noted == IF hashes = {}
                 THEN base
                 ELSE SetField(base, "txHash", CHOOSE h \in hashes : TRUE)
  IN CASE last.out = "raised" -> SetField(noted, "error", MessageOf(last.ret))
       [] last.op = "allowance" -> [base EXCEPT !.success = TRUE, !.skipped = TRUE]
       [] last.op = "approve" -> [noted EXCEPT !.success = TRUE]
       [] last.op = "wait" ->
            IF Has(last.ret, "status") /\ last.ret.status = 1
              THEN [noted EXCEPT !.success = TRUE]
              ELSE SetField(noted, "error", "Transaction failed")

\* C26: the outcome of a triple is determined by the inputs, the confirm
\* flag and the chain's answers to the triple's own calls: every record
\* approveToken returns is the value of one fixed function of these, so two
\* runs that get the same answers for triple k return the same record for
\* it, whatever the calls of the other triples return or raise.
C26_Independence ==
  \A i \in DOMAIN log :
    log[i].op = "return" =>
      /\ i > 1
      /\ log[i - 1].k = log[i].k
      /\ log[i - 1].op = "approve" => ~waitForConfirmation \/ log[i - 1].out = "raised"
      /\ log[i].ret = OutcomeFrom(log[i - 1].idx, log[i - 1], SubmittedIn(log[i].k))

C26_Witness ==
  /\ pc = "done"
  /\ Total = 4
  /\ IsCall(Len(log) - 1, "wait", "ok")
  /\ Succeeded(allResults[4])
  /\ Failed(allResults[2]) /\ Has(allResults[2], "txHash")
  /\ allResults[1].skipped


\* The number of categories of the summary that count record r.
Categories(r) ==
  (IF SuccessfulFilter(r) THEN 1 ELSE 0) + (IF SkippedFilter(r) THEN 1 ELSE 0)
    + (IF FailedFilter(r) THEN 1 ELSE 0)

\* C27: every record approveToken returns satisfies skipped => success, so
\* every record of a batch passes exactly one of the three filters of
\* displayApprovalSummary, and the three numbers printed at the end of the
\* batch add up to the number of records.
C27_OneCategory ==
  /\ \A i \in DOMAIN log :
       log[i].op = "return" =>
         /\ log[i].ret.skipped => log[i].ret.success
         /\ Categories(log[i].ret) = 1
  /\ \A p \in DOMAIN Collected : Categories(Collected[p]) = 1
  /\ pc = "done" =>
       /\ summary.total = Len(allResults)
       /\ summary.successful + summary.skipped + summary.failed = summary.total

C27_Witness ==
  /\ pc = "done"
  /\ summary.successful = 2 /\ summary.skipped = 1 /\ summary.failed = 1


\* C28: in every record approveToken returns, a failed record carries an
\* error; a succeeded record (not skipped) carries a transaction identifier
\* and no error; a skipped record carries neither of the two.
C28_FieldsByStatus ==
  \A i \in DOMAIN log :
    log[i].op = "return" =>
      LET r == log[i].ret IN
        /\ Failed(r) => Has(r, "error")
        /\ Succeeded(r) => Has(r, "txHash") /\ ~Has(r, "error")
        /\ r.skipped => ~Has(r, "txHash") /\ ~Has(r, "error")

C28_Witness ==
  /\ pc = "done"
  /\ \E p \in DOMAIN allResults :
       Failed(allResults[p]) /\ ~Has(allResults[p], "txHash")
  /\ \E p \in DOMAIN allResults : Succeeded(allResults[p])
  /\ \E p \in DOMAIN allResults : allResults[p].skipped


IsSubmission(e) == e.op = "approve" /\ e.out = "ok"

\* C29: the transactions on the chain are, in order, those the approve calls
\* of the batch returned: each is an approve signed by the wallet of the
\* triple being processed at the time, sent to that triple's token, with
\* that triple's spender and the amount 2^256-1, and its wallet, token and
\* spender come from the input lists; the program makes no chain call other
\* than the three reads, approve and the confirmation wait.
C29_OnlyApprovals ==
  LET subs == SelectSeq(log, IsSubmission) IN
    /\ Len(txs) = Len(subs)
    /\ \A h \in DOMAIN txs :
         /\ subs[h].ret = h
         /\ subs[h].idx = TripleAt(subs[h].k)
         /\ txs[h].from = wallets[subs[h].idx[2]]
         /\ txs[h].to = tokenAddresses[subs[h].idx[3]]
         /\ txs[h].spender = spenders[subs[h].idx[1]]
         /\ txs[h].amount = MAX_UINT256
         /\ subs[h].wallet = txs[h].from /\ subs[h].token = txs[h].to
         /\ subs[h].args = <<txs[h].spender, txs[h].amount>>
         /\ <<txs[h].from, txs[h].to, txs[h].spender>> \in InputTriples
    /\ \A i \in DOMAIN log :
         log[i].op \in ChainOps \cup {"approveToken", "return"}

C29_Witness ==
  /\ Len(txs) = 4
  /\ txs[1].from # txs[2].from
  /\ txs[1].spender # txs[3].spender
  /\ pc = "done"


\* The transactions the program has not seen mined: no confirmation wait for
\* them returned a receipt.
Unobserved ==
  {h \in DOMAIN txs :
     ~\E i \in DOMAIN log :
        /\ IsCall(i, "wait", "ok")
        /\ log[i].args = <<h>>
        /\ Has(log[i].ret, "status")}

NoWaitRaised == \A i \in DOMAIN log : log[i].op = "wait" => log[i].out = "ok"

\* tx.wait() as called at line 84, with the default of one confirmation,
\* returns the receipt of the mined transaction or raises: the null that
\* line 86 also guards against is answered only to wait(0).
WaitsReturnReceipts ==
  \A i \in DOMAIN log : IsCall(i, "wait", "ok") => ~IsNull(log[i].ret)

====
